---- MODULE Spec2Model ----
(***************************************************************************)
(* The portal state store of src/lib/store/usePortalStore.ts: the zustand  *)
(* store holding the bridge/swap transaction state and its actions.  Every *)
(* store action is set(produce(recipe)): the recipe is modelled as a pure  *)
(* operator from the current snapshot to the next one, and the action      *)
(* publishes the snapshot it returns.                                      *)
(*                                                                         *)
(* Numbers that are fractional in the program are kept as scaled integers: *)
(* slippage percentages in hundredths of a percent, fees and price impact  *)
(* in tenths.  An optional value (T | undefined) is the empty sequence for *)
(* undefined and the one-element sequence <<v>> for a present value v.     *)
(***************************************************************************)
EXTENDS Integers, Sequences, FiniteSets, TLC

VARIABLES
  sourceToken,            \* TokenTransactionData of the source slot
  destinationToken,       \* TokenTransactionData of the destination slot
  stashedToken,           \* TokenTransactionData | undefined
  bridgeTransactionData,  \* BridgeTransactionData
  tokenApprovalTxHash,    \* string | undefined
  hasUserUpdatedTokens,   \* boolean
  lastChanged,            \* InputType
  nonStableSlippage,      \* number
  last,                   \* history: the last action, its arguments, the snapshot before it
  steps                   \* number of store actions dispatched so far

vars == <<sourceToken, destinationToken, stashedToken, bridgeTransactionData,
          tokenApprovalTxHash, hasUserUpdatedTokens, lastChanged,
          nonStableSlippage, last, steps>>

(***************************************************************************)
(* Bounds and input sets                                                   *)
(***************************************************************************)
\* Length of the action sequences explored.
MaxSteps == 4

undefined == << >>
Some(v) == <<v>>

\* InputType (utils/constants.ts)
Source == "Source"
Destination == "Destination"

\* TokenInfo records: the two default tokens and two stablecoins.
ApeCoinMainnetEthereum == [symbol |-> "APE", chainId |-> "ETHEREUM", address |-> "0xApe"]
NativeApe == [symbol |-> "APE", chainId |-> "APE", address |-> "0x0"]
UsdcEthereum == [symbol |-> "USDC", chainId |-> "ETHEREUM", address |-> "0xUsdc"]
UsdtEthereum == [symbol |-> "USDT", chainId |-> "ETHEREUM", address |-> "0xUsdt"]

defaultBridgeSourceToken == ApeCoinMainnetEthereum
defaultBridgeDestinationToken == NativeApe

Tokens == {ApeCoinMainnetEthereum, NativeApe, UsdcEthereum, UsdtEthereum}
StableAddresses == {"0xUsdc", "0xUsdt"}

AmountStrings == {"", "10", "20"}
BalanceStrings == {"20"}
UsdStrings == {"5"}
TxHashes == {"0xabc"}
GasTokenUsdValues == {3000}
\* <<sourceAmount, destAmount, bridgeFee, gasFee>> of a fetched quote
Quotes == {<<"10", "20", "0.5", "0.1">>, <<"20", "10", "0.1", "0.5">>}
SlippageInputs == {0, 300}
PriceImpactInputs == {undefined, Some(0), Some(49), Some(50), Some(60)}
TxTimeInputs == {undefined, Some(0), Some(250), Some(300), Some(301)}

(***************************************************************************)
(* External collaborators of the store                                     *)
(***************************************************************************)
\* BridgeTransactionData.DEFAULT_SLIPPAGE / STABLE_SWAP_SLIPPAGE
DEFAULT_SLIPPAGE == 200
STABLE_SWAP_SLIPPAGE == 10
\* utils/constants.ts: price impact in tenths of a percent, time in seconds
WARNING_THRESHOLD_PRICE_IMPACT == 50
WARNING_THRESHOLD_FIVE_MINUTES == 300

\* utils.isTokenPairStable: both addresses are recognised stablecoins
isTokenPairStable(a, b) == a \in StableAddresses /\ b \in StableAddresses

\* utils.secondsToReadableTime: minutes and seconds of the duration
secondsToReadableTime(t) == [minutes |-> t \div 60, seconds |-> t % 60]

\* constants.WARNING_PRICE_IMPACT: the warning payload of a price impact
WARNING_PRICE_IMPACT(p) == [warning |-> "PRICE_IMPACT", priceImpact |-> p]

\* JavaScript Number(string) on the fee strings a quote carries, in tenths
Number(str) ==
  CASE str = "0.5" -> 5
    [] str = "0.1" -> 1
    [] str = "10" -> 100
    [] str = "20" -> 200
    [] OTHER -> 0

\* new TokenTransactionData(token, amount)
TokenTransactionData(token, amount) ==
  [token |-> token, amount |-> amount, amountUsd |-> ""]

\* new BridgeTransactionData()
NewBridgeTransactionData ==
  [slippagePercentage |-> DEFAULT_SLIPPAGE,
   applicationFee |-> 0, setApplicationFeeUsd |-> 0,
   gasFee |-> 0, setGasFeeUsd |-> 0,
   priceImpactWarning |-> undefined,
   timeWarning |-> undefined,
   estimatedTxTime |-> undefined,
   sourceChainGasTokenUsdValue |-> 0]

\* BridgeTransactionData.resetTransactionData(): fees and warnings, not slippage
BridgeResetTransactionData(b) ==
  [b EXCEPT !.applicationFee = 0, !.setApplicationFeeUsd = 0,
            !.gasFee = 0, !.setGasFeeUsd = 0,
            !.priceImpactWarning = undefined,
            !.timeWarning = undefined]

\* BridgeTransactionData.resetSlippage()
BridgeResetSlippage(b) == [b EXCEPT !.slippagePercentage = DEFAULT_SLIPPAGE]

(***************************************************************************)
(* The snapshot and its publication                                        *)
(***************************************************************************)
\* The current PortalState snapshot
Cur ==
  [sourceToken |-> sourceToken,
   destinationToken |-> destinationToken,
   stashedToken |-> stashedToken,
   bridgeTransactionData |-> bridgeTransactionData,
   tokenApprovalTxHash |-> tokenApprovalTxHash,
   hasUserUpdatedTokens |-> hasUserUpdatedTokens,
   lastChanged |-> lastChanged,
   nonStableSlippage |-> nonStableSlippage]

\* The snapshot the store is created with
InitialState ==
  [sourceToken |-> TokenTransactionData(defaultBridgeSourceToken, ""),
   destinationToken |-> TokenTransactionData(defaultBridgeDestinationToken, ""),
   stashedToken |-> undefined,
   bridgeTransactionData |-> NewBridgeTransactionData,
   tokenApprovalTxHash |-> undefined,
   hasUserUpdatedTokens |-> FALSE,
   lastChanged |-> Source,
   nonStableSlippage |-> DEFAULT_SLIPPAGE]

\* set(produce(recipe)): publish snapshot s as the result of action op(args)
Publish(op, args, s) ==
  /\ steps < MaxSteps
  /\ sourceToken' = s.sourceToken
  /\ destinationToken' = s.destinationToken
  /\ stashedToken' = s.stashedToken
  /\ bridgeTransactionData' = s.bridgeTransactionData
  /\ tokenApprovalTxHash' = s.tokenApprovalTxHash
  /\ hasUserUpdatedTokens' = s.hasUserUpdatedTokens
  /\ lastChanged' = s.lastChanged
  /\ nonStableSlippage' = s.nonStableSlippage
  /\ last' = [op |-> op, args |-> args, pre |-> Cur]
  /\ steps' = steps + 1

Init ==
  /\ sourceToken = InitialState.sourceToken
  /\ destinationToken = InitialState.destinationToken
  /\ stashedToken = InitialState.stashedToken
  /\ bridgeTransactionData = InitialState.bridgeTransactionData
  /\ tokenApprovalTxHash = InitialState.tokenApprovalTxHash
  /\ hasUserUpdatedTokens = InitialState.hasUserUpdatedTokens
  /\ lastChanged = InitialState.lastChanged
  /\ nonStableSlippage = InitialState.nonStableSlippage
  /\ last = [op |-> "create", args |-> << >>, pre |-> InitialState]
  /\ steps = 0

(***************************************************************************)
(* The recipes of the store actions                                        *)
(***************************************************************************)
\* Is the pair of tokens of snapshot s a stable/stable pair
PairStable(s) ==
  isTokenPairStable(s.sourceToken.token.address, s.destinationToken.token.address)

\* Faulty variant: the pin is moved inside the shouldStoreSlippage branch
setSlippageForStableSwap_PinOnlyWhenStored(s, shouldStoreSlippage) ==
  IF shouldStoreSlippage
  THEN [s EXCEPT !.nonStableSlippage = s.bridgeTransactionData.slippagePercentage,
                 !.bridgeTransactionData.slippagePercentage = STABLE_SWAP_SLIPPAGE]
  ELSE s

\* Faulty variant: the slippage is stored whatever shouldStoreSlippage is
setSlippageForStableSwap_AlwaysStore(s, shouldStoreSlippage) ==
  [s EXCEPT !.nonStableSlippage = s.bridgeTransactionData.slippagePercentage,
            !.bridgeTransactionData.slippagePercentage = STABLE_SWAP_SLIPPAGE]

setSlippageForStableSwap(s, shouldStoreSlippage) ==
  LET stored == IF shouldStoreSlippage
                THEN [s EXCEPT !.nonStableSlippage =
                                   s.bridgeTransactionData.slippagePercentage]
                ELSE s
  IN [stored EXCEPT !.bridgeTransactionData.slippagePercentage = STABLE_SWAP_SLIPPAGE]

\* Faulty variant: the saved value is restored without the truthiness test
setSlippageForNonStableSwap_NoZeroGuard(s) ==
  IF s.bridgeTransactionData.slippagePercentage # s.nonStableSlippage
  THEN [s EXCEPT !.bridgeTransactionData.slippagePercentage = s.nonStableSlippage]
  ELSE s

setSlippageForNonStableSwap(s) ==
  IF /\ s.nonStableSlippage # 0
     /\ s.bridgeTransactionData.slippagePercentage # s.nonStableSlippage
  THEN [s EXCEPT !.bridgeTransactionData.slippagePercentage = s.nonStableSlippage]
  ELSE s

R_setStashedToken(s, token) == [s EXCEPT !.stashedToken = token]

R_setHasUserUpdatedTokens(s) == [s EXCEPT !.hasUserUpdatedTokens = TRUE]

\* Faulty variant: clears the amount of the side recorded in lastChanged
R_resetTransactionData_LastTouched(s) ==
  LET r == [s EXCEPT !.bridgeTransactionData =
                         BridgeResetTransactionData(s.bridgeTransactionData)]
  IN IF r.lastChanged = Source
     THEN [r EXCEPT !.sourceToken.amount = ""]
     ELSE [r EXCEPT !.destinationToken.amount = ""]

R_resetTransactionData(s) ==
  LET r == [s EXCEPT !.bridgeTransactionData =
                         BridgeResetTransactionData(s.bridgeTransactionData)]
  IN IF r.lastChanged = Source
     THEN [r EXCEPT !.destinationToken.amount = ""]
     ELSE [r EXCEPT !.sourceToken.amount = ""]

\* Faulty variant: the full reset also clears hasUserUpdatedTokens
R_resetTransactionDataAndAmounts_ClearsFlag(s) ==
  [s EXCEPT !.bridgeTransactionData =
                BridgeResetTransactionData(s.bridgeTransactionData),
            !.sourceToken.amount = "",
            !.destinationToken.amount = "",
            !.hasUserUpdatedTokens = FALSE]

R_resetTransactionDataAndAmounts(s) ==
  [s EXCEPT !.bridgeTransactionData =
                BridgeResetTransactionData(s.bridgeTransactionData),
            !.sourceToken.amount = "",
            !.destinationToken.amount = ""]

\* Faulty variant: the fees of a quote are added to the fees already stored
R_updateTransactionData_AddsFees(s, sourceAmount, destAmount, bridgeFee, gasFee) ==
  LET a == IF s.lastChanged # Source
           THEN [s EXCEPT !.sourceToken.amount = sourceAmount]
           ELSE s
      b == s.bridgeTransactionData
  IN [a EXCEPT !.destinationToken.amount = destAmount,
               !.bridgeTransactionData.applicationFee =
                   b.applicationFee + Number(bridgeFee),
               !.bridgeTransactionData.setApplicationFeeUsd =
                   b.setApplicationFeeUsd + Number(bridgeFee),
               !.bridgeTransactionData.gasFee = b.gasFee + Number(gasFee),
               !.bridgeTransactionData.setGasFeeUsd = b.setGasFeeUsd + Number(gasFee)]

\* Faulty variant: the source amount is written whatever lastChanged is
R_updateTransactionData_AlwaysSource(s, sourceAmount, destAmount, bridgeFee, gasFee) ==
  [s EXCEPT !.sourceToken.amount = sourceAmount,
            !.destinationToken.amount = destAmount,
            !.bridgeTransactionData.applicationFee = Number(bridgeFee),
            !.bridgeTransactionData.setApplicationFeeUsd = Number(bridgeFee),
            !.bridgeTransactionData.gasFee = Number(gasFee),
            !.bridgeTransactionData.setGasFeeUsd = Number(gasFee)]

R_updateTransactionData(s, sourceAmount, destAmount, bridgeFee, gasFee) ==
  LET a == IF s.lastChanged # Source
           THEN [s EXCEPT !.sourceToken.amount = sourceAmount]
           ELSE s
  IN [a EXCEPT !.destinationToken.amount = destAmount,
               !.bridgeTransactionData.applicationFee = Number(bridgeFee),
               !.bridgeTransactionData.setApplicationFeeUsd = Number(bridgeFee),
               !.bridgeTransactionData.gasFee = Number(gasFee),
               !.bridgeTransactionData.setGasFeeUsd = Number(gasFee)]

R_setSourceChainGasTokenUsdValue(s, value) ==
  [s EXCEPT !.bridgeTransactionData.sourceChainGasTokenUsdValue = value]

\* Faulty variant: only the active slippage is set
R_setSlippagePercentage_ActiveOnly(s, slippage) ==
  [s EXCEPT !.bridgeTransactionData.slippagePercentage = slippage]

R_setSlippagePercentage(s, slippage) ==
  [s EXCEPT !.bridgeTransactionData.slippagePercentage = slippage,
            !.nonStableSlippage = slippage]

R_resetSlippage(s) ==
  [s EXCEPT !.bridgeTransactionData = BridgeResetSlippage(s.bridgeTransactionData)]

\* Faulty variant: an impact equal to the threshold is cleared too
R_setPriceImpactWarning_StrictThreshold(s, priceImpact) ==
  IF priceImpact = undefined \/ priceImpact[1] = 0
     \/ priceImpact[1] <= WARNING_THRESHOLD_PRICE_IMPACT
  THEN [s EXCEPT !.bridgeTransactionData.priceImpactWarning = undefined]
  ELSE [s EXCEPT !.bridgeTransactionData.priceImpactWarning =
                     Some(WARNING_PRICE_IMPACT(priceImpact[1]))]

R_setPriceImpactWarning(s, priceImpact) ==
  IF priceImpact = undefined \/ priceImpact[1] = 0
     \/ priceImpact[1] < WARNING_THRESHOLD_PRICE_IMPACT
  THEN [s EXCEPT !.bridgeTransactionData.priceImpactWarning = undefined]
  ELSE [s EXCEPT !.bridgeTransactionData.priceImpactWarning =
                     Some(WARNING_PRICE_IMPACT(priceImpact[1]))]

\* Faulty variant: an estimate equal to the threshold is cleared too
R_setTxTimeWarning_StrictThreshold(s, estimatedTxTime) ==
  LET a == [s EXCEPT !.bridgeTransactionData.estimatedTxTime = estimatedTxTime]
  IN IF estimatedTxTime = undefined \/ estimatedTxTime[1] = 0
        \/ estimatedTxTime[1] <= WARNING_THRESHOLD_FIVE_MINUTES
     THEN [a EXCEPT !.bridgeTransactionData.timeWarning = undefined]
     ELSE [a EXCEPT !.bridgeTransactionData.timeWarning =
                        Some([text |-> "The estimated waiting time to bridge is",
                              readableTime |-> secondsToReadableTime(estimatedTxTime[1])])]

R_setTxTimeWarning(s, estimatedTxTime) ==
  LET a == [s EXCEPT !.bridgeTransactionData.estimatedTxTime = estimatedTxTime]
  IN IF estimatedTxTime = undefined \/ estimatedTxTime[1] = 0
        \/ estimatedTxTime[1] < WARNING_THRESHOLD_FIVE_MINUTES
     THEN [a EXCEPT !.bridgeTransactionData.timeWarning = undefined]
     ELSE [a EXCEPT !.bridgeTransactionData.timeWarning =
                        Some([text |-> "The estimated waiting time to bridge is",
                              readableTime |-> secondsToReadableTime(estimatedTxTime[1])])]

R_setTokenApprovalTxHash(s, txHash) == [s EXCEPT !.tokenApprovalTxHash = Some(txHash)]

R_setSourceTokenAmount(s, amount) ==
  [s EXCEPT !.sourceToken.amount = amount, !.lastChanged = Source]

R_setSourceTokenAmountUsd(s, amount) == [s EXCEPT !.sourceToken.amountUsd = amount]

R_setDestinationTokenAmount(s, amount) ==
  [s EXCEPT !.destinationToken.amount = amount, !.lastChanged = Destination]

R_setDestinationTokenAmountUsd(s, amount) ==
  [s EXCEPT !.destinationToken.amountUsd = amount]

\* Faulty variant: the new TokenTransactionData is built without the old amount
R_setSourceToken_DropsAmount(s, token) ==
  LET previousSourceTokenAddress == s.sourceToken.token.address
      a == [s EXCEPT !.sourceToken = TokenTransactionData(token, "")]
  IN IF isTokenPairStable(token.address, a.destinationToken.token.address)
     THEN LET wasPreviousPairStable ==
                isTokenPairStable(previousSourceTokenAddress,
                                  a.destinationToken.token.address)
          IN setSlippageForStableSwap(a, ~wasPreviousPairStable)
     ELSE setSlippageForNonStableSwap(a)

\* Faulty variant: choosing a source token also latches hasUserUpdatedTokens
R_setSourceToken_SetsFlag(s, token) ==
  LET previousSourceTokenAddress == s.sourceToken.token.address
      a == [s EXCEPT !.sourceToken = TokenTransactionData(token, s.sourceToken.amount),
                     !.hasUserUpdatedTokens = TRUE]
  IN IF isTokenPairStable(token.address, a.destinationToken.token.address)
     THEN LET wasPreviousPairStable ==
                isTokenPairStable(previousSourceTokenAddress,
                                  a.destinationToken.token.address)
          IN setSlippageForStableSwap(a, ~wasPreviousPairStable)
     ELSE setSlippageForNonStableSwap(a)

R_setSourceToken(s, token) ==
  LET previousSourceTokenAddress == s.sourceToken.token.address
      a == [s EXCEPT !.sourceToken = TokenTransactionData(token, s.sourceToken.amount)]
  IN IF isTokenPairStable(token.address, a.destinationToken.token.address)
     THEN LET wasPreviousPairStable ==
                isTokenPairStable(previousSourceTokenAddress,
                                  a.destinationToken.token.address)
          IN setSlippageForStableSwap(a, ~wasPreviousPairStable)
     ELSE setSlippageForNonStableSwap(a)

R_setDestinationToken(s, token) ==
  LET previousDestTokenAddress == s.destinationToken.token.address
      a == [s EXCEPT !.destinationToken =
                         TokenTransactionData(token, s.destinationToken.amount)]
  IN IF isTokenPairStable(token.address, a.sourceToken.token.address)
     THEN LET wasPreviousPairStable ==
                isTokenPairStable(previousDestTokenAddress,
                                  a.sourceToken.token.address)
          IN setSlippageForStableSwap(a, ~wasPreviousPairStable)
     ELSE setSlippageForNonStableSwap(a)

\* Faulty variant: the swap also flips lastChanged to follow the amounts
R_swapSourceDestination_FlipLastChanged(s) ==
  [s EXCEPT !.sourceToken = s.destinationToken,
            !.destinationToken = s.sourceToken,
            !.hasUserUpdatedTokens = TRUE,
            !.lastChanged = IF s.lastChanged = Source THEN Destination ELSE Source]

\* Faulty variant: only the tokens are exchanged, the amounts stay in their slots
R_swapSourceDestination_TokensOnly(s) ==
  [s EXCEPT !.sourceToken.token = s.destinationToken.token,
            !.destinationToken.token = s.sourceToken.token,
            !.hasUserUpdatedTokens = TRUE]

R_swapSourceDestination(s) ==
  LET currentSource == s.sourceToken
  IN [s EXCEPT !.sourceToken = s.destinationToken,
               !.destinationToken = currentSource,
               !.hasUserUpdatedTokens = TRUE]

R_maxOutSourceToken(s, userBalance) ==
  [s EXCEPT !.sourceToken.amount = userBalance, !.lastChanged = Source]

(***************************************************************************)
(* The store actions                                                       *)
(***************************************************************************)
setStashedToken ==
  \E token \in {undefined} \cup {Some(TokenTransactionData(UsdcEthereum, "10"))} :
    Publish("setStashedToken", <<token>>, R_setStashedToken(Cur, token))

setHasUserUpdatedTokens ==
  Publish("setHasUserUpdatedTokens", << >>, R_setHasUserUpdatedTokens(Cur))

resetTransactionData ==
  Publish("resetTransactionData", << >>, R_resetTransactionData(Cur))

resetTransactionDataAndAmounts ==
  Publish("resetTransactionDataAndAmounts", << >>, R_resetTransactionDataAndAmounts(Cur))

updateTransactionData ==
  \E q \in Quotes :
    Publish("updateTransactionData", q,
            R_updateTransactionData(Cur, q[1], q[2], q[3], q[4]))

setSourceChainGasTokenUsdValue ==
  \E value \in GasTokenUsdValues :
    Publish("setSourceChainGasTokenUsdValue", <<value>>,
            R_setSourceChainGasTokenUsdValue(Cur, value))

setSlippagePercentage ==
  \E slippage \in SlippageInputs :
    Publish("setSlippagePercentage", <<slippage>>, R_setSlippagePercentage(Cur, slippage))

resetSlippage ==
  Publish("resetSlippage", << >>, R_resetSlippage(Cur))

setPriceImpactWarning ==
  \E priceImpact \in PriceImpactInputs :
    Publish("setPriceImpactWarning", <<priceImpact>>,
            R_setPriceImpactWarning(Cur, priceImpact))

setTxTimeWarning ==
  \E estimatedTxTime \in TxTimeInputs :
    Publish("setTxTimeWarning", <<estimatedTxTime>>,
            R_setTxTimeWarning(Cur, estimatedTxTime))

setTokenApprovalTxHash ==
  \E txHash \in TxHashes :
    Publish("setTokenApprovalTxHash", <<txHash>>, R_setTokenApprovalTxHash(Cur, txHash))

setSourceTokenAmount ==
  \E amount \in AmountStrings :
    Publish("setSourceTokenAmount", <<amount>>, R_setSourceTokenAmount(Cur, amount))

setSourceTokenAmountUsd ==
  \E amount \in UsdStrings :
    Publish("setSourceTokenAmountUsd", <<amount>>, R_setSourceTokenAmountUsd(Cur, amount))

setDestinationTokenAmount ==
  \E amount \in AmountStrings :
    Publish("setDestinationTokenAmount", <<amount>>,
            R_setDestinationTokenAmount(Cur, amount))

setDestinationTokenAmountUsd ==
  \E amount \in UsdStrings :
    Publish("setDestinationTokenAmountUsd", <<amount>>,
            R_setDestinationTokenAmountUsd(Cur, amount))

setSourceToken ==
  \E token \in Tokens :
    Publish("setSourceToken", <<token>>, R_setSourceToken(Cur, token))

setDestinationToken ==
  \E token \in Tokens :
    Publish("setDestinationToken", <<token>>, R_setDestinationToken(Cur, token))

swapSourceDestination ==
  Publish("swapSourceDestination", << >>, R_swapSourceDestination(Cur))

maxOutSourceToken ==
  \E userBalance \in BalanceStrings :
    Publish("maxOutSourceToken", <<userBalance>>, R_maxOutSourceToken(Cur, userBalance))

Next ==
  \/ setStashedToken
  \/ setHasUserUpdatedTokens
  \/ resetTransactionData
  \/ resetTransactionDataAndAmounts
  \/ updateTransactionData
  \/ setSourceChainGasTokenUsdValue
  \/ setSlippagePercentage
  \/ resetSlippage
  \/ setPriceImpactWarning
  \/ setTxTimeWarning
  \/ setTokenApprovalTxHash
  \/ setSourceTokenAmount
  \/ setSourceTokenAmountUsd
  \/ setDestinationTokenAmount
  \/ setDestinationTokenAmountUsd
  \/ setSourceToken
  \/ setDestinationToken
  \/ swapSourceDestination
  \/ maxOutSourceToken

Spec == Init /\ [][Next]_vars

(***************************************************************************)
(* Properties                                                              *)
(*                                                                         *)
(* last.pre is the snapshot before the last action, Cur the one after it,  *)
(* so a property of one action is an invariant over (last, Cur).           *)
(***************************************************************************)
Slippage(s) == s.bridgeTransactionData.slippagePercentage
TokenSetters == {"setSourceToken", "setDestinationToken"}
SlippageSetters == {"setSlippagePercentage", "resetSlippage"}

\* C1 (as stated): in every reachable state, a stable/stable pair has slippage
\* STABLE_SWAP_SLIPPAGE, whatever setSlippagePercentage, resetSlippage or
\* swapSourceDestination calls came before.
C1_StablePairAlwaysPinned ==
  PairStable(Cur) => Slippage(Cur) = STABLE_SWAP_SLIPPAGE

\* C1 (amended): a token setter that yields a stable/stable pair pins the slippage
\* to STABLE_SWAP_SLIPPAGE, and while the pair stays stable every action other
\* than setSlippagePercentage and resetSlippage (swapSourceDestination included)
\* keeps it pinned.
C1_StablePairPinnedUntilSlippageSet ==
  ( /\ PairStable(Cur)
    /\ last.op \notin SlippageSetters
    /\ \/ last.op \in TokenSetters
       \/ PairStable(last.pre) /\ Slippage(last.pre) = STABLE_SWAP_SLIPPAGE )
  => Slippage(Cur) = STABLE_SWAP_SLIPPAGE

\* C1 witness: a stable pair still pinned after a swap, with an earlier user
\* setting of 300 saved as the restore point.
C1_Witness ==
  /\ last.op = "swapSourceDestination"
  /\ PairStable(Cur)
  /\ Slippage(Cur) = STABLE_SWAP_SLIPPAGE
  /\ nonStableSlippage = 300

\* C2 (as stated): when a token setter takes a non-stable pair with slippage s to
\* a stable pair, the slippage becomes STABLE_SWAP_SLIPPAGE and every token setter
\* call that follows at once and makes the pair non-stable again yields slippage
\* s, for every s, 0 included.
C2_RoundTripRestoresSlippage ==
  ( /\ last.op \in TokenSetters
    /\ ~PairStable(last.pre)
    /\ PairStable(Cur) )
  => /\ Slippage(Cur) = STABLE_SWAP_SLIPPAGE
     /\ \A token \in Tokens :
          /\ ~PairStable(R_setSourceToken(Cur, token))
               => Slippage(R_setSourceToken(Cur, token)) = Slippage(last.pre)
          /\ ~PairStable(R_setDestinationToken(Cur, token))
               => Slippage(R_setDestinationToken(Cur, token)) = Slippage(last.pre)

\* C3: a token setter whose new pair is stable/stable sets the slippage to
\* STABLE_SWAP_SLIPPAGE; nonStableSlippage becomes the slippage before the call
\* if the previous pair was not stable and is unchanged if it was.
C3_StableBranchStoresOnce ==
  (last.op \in TokenSetters /\ PairStable(Cur))
  => /\ Slippage(Cur) = STABLE_SWAP_SLIPPAGE
     /\ nonStableSlippage = IF PairStable(last.pre)
                            THEN last.pre.nonStableSlippage
                            ELSE Slippage(last.pre)

\* C3 witness: a stable-to-stable change of the source token that kept the saved
\* value 300.
C3_Witness ==
  /\ last.op = "setSourceToken"
  /\ PairStable(last.pre)
  /\ PairStable(Cur)
  /\ last.pre.sourceToken.token # sourceToken.token
  /\ Slippage(last.pre) = STABLE_SWAP_SLIPPAGE
  /\ nonStableSlippage = 300

\* C4 (as stated): every action other than setSourceTokenAmount and
\* setDestinationTokenAmount leaves lastChanged unchanged.
C4_OnlyAmountSettersChangeLastChanged ==
  last.op \notin {"setSourceTokenAmount", "setDestinationTokenAmount"}
  => lastChanged = last.pre.lastChanged

\* C4 (amended): setSourceTokenAmount, setDestinationTokenAmount and
\* maxOutSourceToken are the only actions that update lastChanged (to Source,
\* Destination and Source); every other action leaves it unchanged.
C4_LastChangedFrame ==
  /\ last.op \notin {"setSourceTokenAmount", "setDestinationTokenAmount",
                     "maxOutSourceToken"}
       => lastChanged = last.pre.lastChanged
  /\ last.op \in {"setSourceTokenAmount", "maxOutSourceToken"}
       => lastChanged = Source
  /\ last.op = "setDestinationTokenAmount" => lastChanged = Destination

\* C4 witness: maxOutSourceToken moved lastChanged from Destination to Source.
C4_Witness ==
  /\ last.op = "maxOutSourceToken"
  /\ last.pre.lastChanged = Destination
  /\ lastChanged = Source

\* C5: updateTransactionData sets the destination amount to destAmount always,
\* sets the source amount to sourceAmount when lastChanged is not Source, and
\* leaves the source amount unchanged when lastChanged is Source.
C5_UpdateKeepsEditedSource ==
  last.op = "updateTransactionData"
  => /\ destinationToken.amount = last.args[2]
     /\ last.pre.lastChanged # Source => sourceToken.amount = last.args[1]
     /\ last.pre.lastChanged = Source
          => sourceToken.amount = last.pre.sourceToken.amount

\* C5 witness: the user typed "10" into the source, a quote carrying source "20"
\* and destination "10" arrived, and the source is still "10".
C5_Witness ==
  /\ last.op = "updateTransactionData"
  /\ last.pre.lastChanged = Source
  /\ last.pre.sourceToken.amount = "10"
  /\ last.args[1] = "20"
  /\ sourceToken.amount = "10"
  /\ destinationToken.amount = "10"

C7_ResetClearsLastTouchedSide ==
  last.op = "resetTransactionData"
  => IF last.pre.lastChanged = Source
     THEN /\ sourceToken.amount = ""
          /\ destinationToken.amount = last.pre.destinationToken.amount
     ELSE /\ destinationToken.amount = ""
          /\ sourceToken.amount = last.pre.sourceToken.amount

\* C8: one swapSourceDestination puts the old destination data in the source slot
\* and the old source data in the destination slot; a second one returns both
\* slots to their contents before the first, and the only other field that may
\* differ from that state is hasUserUpdatedTokens, which is true.
C8_SwapIsItsOwnInverse ==
  last.op = "swapSourceDestination"
  => /\ sourceToken = last.pre.destinationToken
     /\ destinationToken = last.pre.sourceToken
     /\ hasUserUpdatedTokens
     /\ R_swapSourceDestination(Cur) = [last.pre EXCEPT !.hasUserUpdatedTokens = TRUE]

\* C8 witness: a swap of slots that differed in token, amount and USD amount,
\* taken while hasUserUpdatedTokens was still false.
C8_Witness ==
  /\ last.op = "swapSourceDestination"
  /\ ~last.pre.hasUserUpdatedTokens
  /\ last.pre.sourceToken.amount = "10"
  /\ last.pre.destinationToken.amount = "20"
  /\ last.pre.sourceToken.amountUsd = "5"
  /\ last.pre.destinationToken.amountUsd = ""
  /\ sourceToken.amount = "20"

\* C9: after setSlippagePercentage(x) the active slippage and nonStableSlippage
\* both equal x and every other field is unchanged; calling it again with the
\* same x yields the same state.
C9_SetSlippageIdempotent ==
  last.op = "setSlippagePercentage"
  => /\ Slippage(Cur) = last.args[1]
     /\ nonStableSlippage = last.args[1]
     /\ Cur = [last.pre EXCEPT !.bridgeTransactionData.slippagePercentage = last.args[1],
                               !.nonStableSlippage = last.args[1]]
     /\ R_setSlippagePercentage(Cur, last.args[1]) = Cur

\* C9 witness: setSlippagePercentage(300) called in a stable pair whose slippage
\* was pinned and whose restore point was the default.
C9_Witness ==
  /\ last.op = "setSlippagePercentage"
  /\ last.args[1] = 300
  /\ Slippage(last.pre) = STABLE_SWAP_SLIPPAGE
  /\ last.pre.nonStableSlippage = DEFAULT_SLIPPAGE
  /\ Slippage(Cur) = 300
  /\ nonStableSlippage = 300

\* C10: hasUserUpdatedTokens is false in the created store, is true after
\* setHasUserUpdatedTokens and after swapSourceDestination, and no action takes it
\* from true back to false.
C10_HasUserUpdatedTokensLatch ==
  /\ steps = 0 => ~hasUserUpdatedTokens
  /\ last.op \in {"setHasUserUpdatedTokens", "swapSourceDestination"}
       => hasUserUpdatedTokens
  /\ last.pre.hasUserUpdatedTokens => hasUserUpdatedTokens

\* C10 witness: the flag, already true, survived resetTransactionDataAndAmounts.
C10_Witness ==
  /\ last.op = "resetTransactionDataAndAmounts"
  /\ last.pre.hasUserUpdatedTokens
  /\ hasUserUpdatedTokens

\* C11: setTxTimeWarning(t) records t as estimatedTxTime, also when t is absent;
\* afterwards the time warning is set, and built from the readable rendering of
\* t, exactly when t is present, nonzero and at least 300 seconds, and is cleared
\* otherwise, whatever warning was set before.
C11_TxTimeWarningThreshold ==
  last.op = "setTxTimeWarning"
  => LET t == last.args[1]
         warning == bridgeTransactionData.timeWarning
     IN /\ bridgeTransactionData.estimatedTxTime = t
        /\ (warning # undefined) <=> (t # undefined /\ t[1] # 0 /\ t[1] >= 300)
        /\ warning # undefined
             => warning[1].readableTime = secondsToReadableTime(t[1])

\* C11 witness: a warning set earlier was cleared by setTxTimeWarning(250), and
\* 250 is recorded as the estimate.
C11_Witness ==
  /\ last.op = "setTxTimeWarning"
  /\ last.args[1] = Some(250)
  /\ last.pre.bridgeTransactionData.timeWarning # undefined
  /\ bridgeTransactionData.timeWarning = undefined
  /\ bridgeTransactionData.estimatedTxTime = Some(250)

\* C12: after setPriceImpactWarning(p) the price impact warning is present exactly
\* when p is present and at least WARNING_THRESHOLD_PRICE_IMPACT, and is then the
\* payload derived from p; it does not depend on the warning stored before.
C12_PriceImpactWarningThreshold ==
  last.op = "setPriceImpactWarning"
  => LET p == last.args[1]
         warning == bridgeTransactionData.priceImpactWarning
     IN /\ (warning # undefined)
             <=> (p # undefined /\ p[1] >= WARNING_THRESHOLD_PRICE_IMPACT)
        /\ warning # undefined => warning = Some(WARNING_PRICE_IMPACT(p[1]))

\* C12 witness: a warning for impact 6.0 was replaced by the one for an impact
\* equal to the threshold.
C12_Witness ==
  /\ last.op = "setPriceImpactWarning"
  /\ last.args[1] = Some(50)
  /\ last.pre.bridgeTransactionData.priceImpactWarning = Some(WARNING_PRICE_IMPACT(60))
  /\ bridgeTransactionData.priceImpactWarning = Some(WARNING_PRICE_IMPACT(50))

C14_TokenSetterFrame ==
  /\ last.op = "setSourceToken"
       => /\ sourceToken.token = last.args[1]
          /\ sourceToken.amount = last.pre.sourceToken.amount
          /\ destinationToken = last.pre.destinationToken
  /\ last.op = "setDestinationToken"
       => /\ destinationToken.token = last.args[1]
          /\ destinationToken.amount = last.pre.destinationToken.amount
          /\ sourceToken = last.pre.sourceToken
  /\ last.op \in TokenSetters
       => /\ lastChanged = last.pre.lastChanged
          /\ hasUserUpdatedTokens = last.pre.hasUserUpdatedTokens
          /\ stashedToken = last.pre.stashedToken
          /\ tokenApprovalTxHash = last.pre.tokenApprovalTxHash

\* C14 witness: setSourceToken(USDC) on a source slot holding amount "10", with a
\* destination amount "20" and a stashed token in place.
C14_Witness ==
  /\ last.op = "setSourceToken"
  /\ last.args[1] = UsdcEthereum
  /\ last.pre.sourceToken.token = ApeCoinMainnetEthereum
  /\ last.pre.sourceToken.amount = "10"
  /\ sourceToken.amount = "10"
  /\ destinationToken.amount = "20"
  /\ stashedToken # undefined

\* C15 (as stated): in every reachable state in which the source token or the
\* destination token differs from its initial default token, hasUserUpdatedTokens
\* is true.
C15_NonDefaultTokensImplyFlag ==
  ( \/ sourceToken.token # defaultBridgeSourceToken
    \/ destinationToken.token # defaultBridgeDestinationToken )
  => hasUserUpdatedTokens

\* C15 (amended): hasUserUpdatedTokens is true exactly when it was true before
\* the last action or that action was setHasUserUpdatedTokens or
\* swapSourceDestination; setSourceToken and setDestinationToken leave it as it
\* was, so a token can differ from its default while the flag is false.
C15_FlagSetOnlyByLatchActions ==
  hasUserUpdatedTokens
    <=> \/ last.pre.hasUserUpdatedTokens
        \/ last.op \in {"setHasUserUpdatedTokens", "swapSourceDestination"}

\* C15 witness: both tokens were changed away from the defaults by the token
\* setters and the flag is still false.
C15_Witness ==
  /\ last.op \in TokenSetters
  /\ sourceToken.token # defaultBridgeSourceToken
  /\ destinationToken.token # defaultBridgeDestinationToken
  /\ ~hasUserUpdatedTokens

\* The destination amount and the fee fields of snapshot s are those of quote q
QuoteApplied(s, q) ==
  /\ s.destinationToken.amount = q[2]
  /\ s.bridgeTransactionData.applicationFee = Number(q[3])
  /\ s.bridgeTransactionData.setApplicationFeeUsd = Number(q[3])
  /\ s.bridgeTransactionData.gasFee = Number(q[4])
  /\ s.bridgeTransactionData.setGasFeeUsd = Number(q[4])

\* C16: when two updateTransactionData calls are applied one after the other, in
\* either order, the destination amount and the fee fields equal the arguments of
\* the call applied last, and the source amount equals the later call's
\* sourceAmount when lastChanged is Destination and its value before the two
\* calls when lastChanged is Source.
C16_LastQuoteWins ==
  last.op = "updateTransactionData"
  => /\ QuoteApplied(Cur, last.args)
     /\ \A q \in Quotes :
          LET after == R_updateTransactionData(Cur, q[1], q[2], q[3], q[4])
          IN /\ QuoteApplied(after, q)
             /\ after.sourceToken.amount =
                  IF lastChanged = Destination
                  THEN q[1]
                  ELSE last.pre.sourceToken.amount

\* C16 witness: the quote ("20","10","0.1","0.5") was delivered onto a snapshot
\* still holding the amounts and fees of the quote ("10","20","0.5","0.1"), with
\* lastChanged Destination, and overwrote them.
C16_Witness ==
  /\ last.op = "updateTransactionData"
  /\ last.args = <<"20", "10", "0.1", "0.5">>
  /\ lastChanged = Destination
  /\ last.pre.sourceToken.amount = "10"
  /\ last.pre.destinationToken.amount = "20"
  /\ last.pre.bridgeTransactionData.applicationFee = 5
  /\ last.pre.bridgeTransactionData.gasFee = 1
  /\ sourceToken.amount = "20"
  /\ destinationToken.amount = "10"
  /\ bridgeTransactionData.applicationFee = 1
  /\ bridgeTransactionData.gasFee = 5

\* The snapshots one setSourceToken / setDestinationToken call away from a
\* snapshot of S, keeping the pair non-stable, together with S
NonStableTokenChange(S) ==
  S \cup {r \in {R_setSourceToken(s, token) : s \in S, token \in Tokens}
                  \cup {R_setDestinationToken(s, token) : s \in S, token \in Tokens} :
            ~PairStable(r)}

\* The snapshots reachable from S by any number of such calls
RECURSIVE NonStableTokenChanges(_)
NonStableTokenChanges(S) ==
  IF NonStableTokenChange(S) = S THEN S
  ELSE NonStableTokenChanges(NonStableTokenChange(S))

\* C17 (as stated): after resetSlippage() in a non-stable pair, the slippage stays
\* at DEFAULT_SLIPPAGE across any later setSourceToken / setDestinationToken calls
\* that keep the pair non-stable.
C17_ResetSlippageSurvivesTokenChange ==
  (last.op = "resetSlippage" /\ ~PairStable(Cur))
  => \A s \in NonStableTokenChanges({Cur}) : Slippage(s) = DEFAULT_SLIPPAGE

\* C18 (as stated): updateTransactionData leaves unchanged the amount of the slot
\* named by lastChanged: the source amount when lastChanged is Source, the
\* destination amount when lastChanged is Destination.
C18_QuoteKeepsEditedSide ==
  last.op = "updateTransactionData"
  => IF last.pre.lastChanged = Source
     THEN sourceToken.amount = last.pre.sourceToken.amount
     ELSE destinationToken.amount = last.pre.destinationToken.amount

\* The snapshots reachable from S by any number of swapSourceDestination and
\* resetTransactionData calls
RECURSIVE SwapsAndResets(_)
SwapsAndResets(S) ==
  LET T == S \cup {R_swapSourceDestination(s) : s \in S}
             \cup {R_resetTransactionData(s) : s \in S}
  IN IF T = S THEN S ELSE SwapsAndResets(T)

\* C19 (as stated): after setSourceTokenAmount(v), setDestinationTokenAmount(v) or
\* maxOutSourceToken(v), followed only by swapSourceDestination and
\* resetTransactionData calls in any order and number, one of the two slots still
\* holds the amount v.
C19_EnteredAmountSurvives ==
  last.op \in {"setSourceTokenAmount", "setDestinationTokenAmount", "maxOutSourceToken"}
  => \A s \in SwapsAndResets({Cur}) :
       \/ s.sourceToken.amount = last.args[1]
       \/ s.destinationToken.amount = last.args[1]

====
